---- MODULE Spec2Model ----
(***************************************************************************)
(* A model of pycurl.py: the dispatcher (_dispatch), the download          *)
(* coordinator (download_all) running as the consumer of every worker      *)
(* thread, the transfer executor (download) and the URL reader             *)
(* (_read_urls, _is_valid_url).                                            *)
(***************************************************************************)
EXTENDS Integers, Sequences, FiniteSets, TLC

\* ------------------------------------------------------------------ bounds
MaxThreads == 2
MaxJobs == 3
MaxFairJobs == 2
MaxChunks == 2
MaxLines == 2
MaxUrlLen == 5

\* ------------------------------------------------------------- the universe
URLs == {"a", "b"}
Workers == 1 .. MaxThreads
\* the end-of-stream marker of the queue; jobs are queued by their position
Sentinel == 0

VARIABLES
    numThreads,     \* args.parallelism
    jobs,           \* the job sequence handed to _dispatch (URLs)
    dirCreatable,   \* environment: whether os.makedirs can succeed
    dirExists,      \* the download directory is on disk
    ppc,            \* producer position in _dispatch
    pidx,           \* number of jobs the producer has pushed
    nsent,          \* number of sentinels the producer has pushed
    jidx,           \* number of workers the producer has joined
    queue,          \* Queue(maxsize=num_threads): job positions and sentinels
    wpc,            \* position of each worker thread in download_all
    cur,            \* the job (position in jobs) a worker is handling, 0 if none
    delivered,      \* per job position: how many times a worker's stream yielded it
    fs,             \* per URL: the file at its destination path
    invocations,    \* per URL: number of calls of the downloader callable
    log,            \* the log records written so far: <<level, URL, what>>
    dl,             \* one call of download(): position, server response, sink
    rd,             \* one run of _read_urls(): input lines, position, output
    uv              \* one call of _is_valid_url(): position, argument, result

mainVars == <<numThreads, jobs, dirCreatable, dirExists, ppc, pidx, nsent, jidx,
              queue, wpc, cur, delivered, fs, invocations, log>>

vars == <<mainVars, dl, rd, uv>>

RECURSIVE SeqsUpTo(_, _)
SeqsUpTo(S, n) ==
    IF n = 0 THEN {<<>>}
    ELSE LET shorter == SeqsUpTo(S, n - 1)
         IN  shorter \cup {Append(s, x) : s \in {t \in shorter : Len(t) = n - 1}, x \in S}

\* a dispatcher that starts as many threads as the machine allows
StartedAll == Workers

\* line 82: one thread per unit of num_threads
Started == 1 .. numThreads

\* the file at a destination path: absent, or created by `owner` and still
\* being written (empty: no byte yet, partial: some bytes), or fully written
NoFile == [st |-> "absent", owner |-> 0]
FullFile == [st |-> "full", owner |-> 0]

\* md5(url) joined with the directory: the destination is keyed by the URL
Dst(w) == jobs[cur[w]]

\* the open file object of worker w is still the file at its path
Mine(w) == fs[Dst(w)].owner = w /\ fs[Dst(w)].st \in {"empty", "partial"}

Alive(w) == wpc[w] \notin {"unstarted", "done", "raised"}

\* no call of download() and no run of _read_urls() under way
NoDownload == [pc |-> "none"]
NoRead == [pc |-> "none"]
NoValidation == [pc |-> "none"]

Init ==
    /\ dl = NoDownload
    /\ rd = NoRead
    /\ uv = NoValidation
    /\ numThreads \in 1 .. MaxThreads
    /\ jobs \in SeqsUpTo(URLs, MaxJobs)
    /\ dirCreatable \in BOOLEAN
    /\ dirExists = FALSE
    /\ ppc = "start"
    /\ pidx = 0
    /\ nsent = 0
    /\ jidx = 0
    /\ queue = <<>>
    /\ wpc = [w \in Workers |-> "unstarted"]
    /\ cur = [w \in Workers |-> 0]
    /\ delivered = [i \in 1 .. MaxJobs |-> 0]
    /\ fs = [u \in URLs |-> NoFile]
    /\ invocations = [u \in URLs |-> 0]
    /\ log = {}

\* ------------------------------------------------------------ the producer
\* where the producer stands once i jobs are pushed: the for loop of line 85
\* continues, or the jobs are exhausted and the sentinels follow
AfterJobs(i) == IF i < Len(jobs) THEN "put" ELSE "sentinel"

\* a producer that pushes one end-of-stream marker too few
NumSentinelsShort == numThreads - 1

\* one end-of-stream marker per worker (line 88)
NumSentinels == numThreads

\* a queue without a size limit (maxsize=0): put never blocks
QueueNeverFull == FALSE

\* Queue(maxsize=num_threads): put blocks while the queue is full
QueueFull == Len(queue) >= numThreads

\* lines 79-83: the queue is created and every worker thread started
StartWorkers ==
    /\ ppc = "start"
    /\ queue' = <<>>
    /\ wpc' = [w \in Workers |-> IF w \in Started THEN "makedirs" ELSE "unstarted"]
    /\ ppc' = AfterJobs(0)
    /\ UNCHANGED <<numThreads, jobs, dirCreatable, dirExists, pidx, nsent, jidx,
                   cur, delivered, fs, invocations, log, dl, rd, uv>>

\* a LifoQueue: put places the item at the head
PutFront(q, x) == <<x>> \o q

\* queue.put(x) of queue.Queue appends x at the tail
Put(q, x) == Append(q, x)

\* lines 85-86: queue.put(job)
PutJob ==
    /\ ppc = "put"
    /\ ~QueueFull
    /\ queue' = Put(queue, pidx + 1)
    /\ pidx' = pidx + 1
    /\ ppc' = AfterJobs(pidx + 1)
    /\ UNCHANGED <<numThreads, jobs, dirCreatable, dirExists, nsent, jidx,
                   wpc, cur, delivered, fs, invocations, log, dl, rd, uv>>

\* line 88: queue.put(sentinel), once per worker
PutSentinel ==
    /\ ppc = "sentinel"
    /\ nsent < NumSentinels
    /\ ~QueueFull
    /\ queue' = Put(queue, Sentinel)
    /\ nsent' = nsent + 1
    /\ ppc' = IF nsent + 1 = NumSentinels THEN "join" ELSE "sentinel"
    /\ UNCHANGED <<numThreads, jobs, dirCreatable, dirExists, pidx, jidx,
                   wpc, cur, delivered, fs, invocations, log, dl, rd, uv>>

\* a producer that does not wait for its workers
JoinableAtOnce(w) == TRUE

\* w.join() returns once thread w is no longer alive
Joinable(w) == ~Alive(w)

\* line 89: the workers are joined one after another, then _dispatch returns
Join ==
    /\ ppc = "join"
    /\ jidx < numThreads
    /\ Joinable(jidx + 1)
    /\ jidx' = jidx + 1
    /\ ppc' = IF jidx + 1 = numThreads THEN "done" ELSE "join"
    /\ UNCHANGED <<numThreads, jobs, dirCreatable, dirExists, pidx, nsent,
                   queue, wpc, cur, delivered, fs, invocations, log, dl, rd, uv>>

Producer == StartWorkers \/ PutJob \/ PutSentinel \/ Join

\* ------------------------------------------------------------- the workers
\* a download_all that goes on to its URLs without creating the directory
MakedirsSkipped(w) ==
    /\ wpc[w] = "makedirs"
    /\ dirExists' = dirExists
    /\ wpc' = [wpc EXCEPT ![w] = "next"]
    /\ UNCHANGED <<numThreads, jobs, dirCreatable, ppc, pidx, nsent, jidx,
                   queue, cur, delivered, fs, invocations, log, dl, rd, uv>>

\* line 45: os.makedirs(download_directory, exist_ok=True) in every worker;
\* an OSError here is not caught and ends the thread
Makedirs(w) ==
    /\ wpc[w] = "makedirs"
    /\ IF dirCreatable
       THEN dirExists' = TRUE /\ wpc' = [wpc EXCEPT ![w] = "next"]
       ELSE dirExists' = dirExists /\ wpc' = [wpc EXCEPT ![w] = "raised"]
    /\ UNCHANGED <<numThreads, jobs, dirCreatable, ppc, pidx, nsent, jidx,
                   queue, cur, delivered, fs, invocations, log, dl, rd, uv>>

\* a get that reads the head of the queue and leaves it there
GetKeep(q) == q

\* queue.get() takes the head off the queue
Get(q) == Tail(q)

\* lines 46 and 82: next(iter(queue.get, sentinel)); get blocks on an empty
\* queue, the sentinel ends the stream and download_all returns
GetJob(w) ==
    /\ wpc[w] = "next"
    /\ queue # <<>>
    /\ queue' = Get(queue)
    /\ IF Head(queue) = Sentinel
       THEN /\ wpc' = [wpc EXCEPT ![w] = "done"]
            /\ cur' = [cur EXCEPT ![w] = 0]
            /\ delivered' = delivered
       ELSE /\ wpc' = [wpc EXCEPT ![w] = "open"]
            /\ cur' = [cur EXCEPT ![w] = Head(queue)]
            /\ delivered' = [delivered EXCEPT ![Head(queue)] = @ + 1]
    /\ UNCHANGED <<numThreads, jobs, dirCreatable, dirExists, ppc, pidx, nsent,
                   jidx, fs, invocations, log, dl, rd, uv>>

\* an open in mode 'wb': it creates or truncates whatever is at the path
CanCreateAlways(u) == TRUE

\* open(dst, 'xb') creates the file only if the path is free (O_EXCL|O_CREAT)
CanCreate(u) == fs[u].st = "absent"

\* lines 51-52: the exclusive create succeeds and the downloader is called
OpenCreate(w) ==
    /\ wpc[w] = "open"
    /\ CanCreate(Dst(w))
    /\ fs' = [fs EXCEPT ![Dst(w)] = [st |-> "empty", owner |-> w]]
    /\ invocations' = [invocations EXCEPT ![Dst(w)] = @ + 1]
    /\ wpc' = [wpc EXCEPT ![w] = "transfer"]
    /\ UNCHANGED <<numThreads, jobs, dirCreatable, dirExists, ppc, pidx, nsent,
                   jidx, queue, cur, delivered, log, dl, rd, uv>>

\* lines 54-55: FileExistsError, the URL is skipped
OpenExists(w) ==
    /\ wpc[w] = "open"
    /\ ~CanCreate(Dst(w))
    /\ log' = log \cup {<<"info", Dst(w), "already">>}
    /\ wpc' = [wpc EXCEPT ![w] = "next"]
    /\ UNCHANGED <<numThreads, jobs, dirCreatable, dirExists, ppc, pidx, nsent,
                   jidx, queue, cur, delivered, fs, invocations, dl, rd, uv>>

\* os.remove(dst): deletes whatever file is at the path and raises
\* FileNotFoundError when there is none; raised inside an except clause, the
\* error leaves download_all and ends the worker thread
Remove(w) ==
    IF fs[Dst(w)].st = "absent"
    THEN /\ fs' = fs
         /\ wpc' = [wpc EXCEPT ![w] = "raised"]
    ELSE /\ fs' = [fs EXCEPT ![Dst(w)] = NoFile]
         /\ wpc' = [wpc EXCEPT ![w] = "next"]

\* a handler that deletes the file without a log record
HandleIOSilent(w, e) ==
    /\ log' = log
    /\ Remove(w)

\* lines 56-58: except (RequestException, HTTPError, IOError) as e; the log
\* record names e, raised by open (line 51) or by the downloader (line 52)
HandleIO(w, e) ==
    /\ log' = log \cup {<<"error", Dst(w), e>>}
    /\ Remove(w)

\* a handler of unexpected exceptions that logs and leaves the file behind
HandleAnyKeep(w) ==
    /\ log' = log \cup {<<"exception", Dst(w), "transfer">>}
    /\ fs' = fs
    /\ wpc' = [wpc EXCEPT ![w] = "next"]

\* lines 59-62: except Exception
HandleAny(w) ==
    /\ log' = log \cup {<<"exception", Dst(w), "transfer">>}
    /\ Remove(w)

\* line 51 raising another OSError (EMFILE, EACCES, ENOSPC, ...), whether or
\* not the path exists: no file is created, and the exception is an IOError,
\* caught by the handler of line 56
OpenError(w) ==
    /\ wpc[w] = "open"
    /\ HandleIO(w, "open")
    /\ UNCHANGED <<numThreads, jobs, dirCreatable, dirExists, ppc, pidx, nsent,
                   jidx, queue, cur, delivered, invocations, dl, rd, uv>>

\* line 52: the downloader writes bytes to the open file
WriteBytes(w) ==
    /\ wpc[w] = "transfer"
    /\ Mine(w)
    /\ fs[Dst(w)].st = "empty"
    /\ fs' = [fs EXCEPT ![Dst(w)].st = "partial"]
    /\ UNCHANGED <<numThreads, jobs, dirCreatable, dirExists, ppc, pidx, nsent,
                   jidx, queue, wpc, cur, delivered, invocations, log, dl, rd, uv>>

\* lines 52-53: the downloader returns, the file is closed fully written
TransferOk(w) ==
    /\ wpc[w] = "transfer"
    /\ fs' = IF Mine(w) THEN [fs EXCEPT ![Dst(w)] = FullFile] ELSE fs
    /\ log' = log \cup {<<"info", Dst(w), "downloaded">>}
    /\ wpc' = [wpc EXCEPT ![w] = "next"]
    /\ UNCHANGED <<numThreads, jobs, dirCreatable, dirExists, ppc, pidx, nsent,
                   jidx, queue, cur, delivered, invocations, dl, rd, uv>>

\* line 52 raising a transfer-related error (RequestException, HTTPError,
\* IOError): the with block closes the file and the handler of line 56 runs
TransferFailIO(w) ==
    /\ wpc[w] = "transfer"
    /\ HandleIO(w, "transfer")
    /\ UNCHANGED <<numThreads, jobs, dirCreatable, dirExists, ppc, pidx, nsent,
                   jidx, queue, cur, delivered, invocations, dl, rd, uv>>

\* line 52 raising any other Exception: the handler of line 59 runs
TransferFailAny(w) ==
    /\ wpc[w] = "transfer"
    /\ HandleAny(w)
    /\ UNCHANGED <<numThreads, jobs, dirCreatable, dirExists, ppc, pidx, nsent,
                   jidx, queue, cur, delivered, invocations, dl, rd, uv>>

Worker(w) ==
    \/ Makedirs(w)
    \/ GetJob(w)
    \/ OpenCreate(w)
    \/ OpenExists(w)
    \/ OpenError(w)
    \/ WriteBytes(w)
    \/ TransferOk(w)
    \/ TransferFailIO(w)
    \/ TransferFailAny(w)

Next == Producer \/ \E w \in Workers : Worker(w)

Spec == Init /\ [][Next]_vars

\* threads are scheduled fairly: the producer and every worker keep running;
\* the fair runs are explored for job sequences of at most MaxFairJobs jobs
FairInit == Init /\ Len(jobs) <= MaxFairJobs

FairSpec ==
    /\ FairInit
    /\ [][Next]_vars
    /\ WF_vars(Producer)
    /\ \A w \in Workers : WF_vars(Worker(w))

\* the dispatcher's variables while download() or _read_urls() is studied
\* on its own: no run, nothing on disk
MainIdle ==
    /\ numThreads = 1
    /\ jobs = <<>>
    /\ dirCreatable = TRUE
    /\ dirExists = FALSE
    /\ ppc = "start"
    /\ pidx = 0
    /\ nsent = 0
    /\ jidx = 0
    /\ queue = <<>>
    /\ wpc = [w \in Workers |-> "unstarted"]
    /\ cur = [w \in Workers |-> 0]
    /\ delivered = [i \in 1 .. MaxJobs |-> 0]
    /\ fs = [u \in URLs |-> NoFile]
    /\ invocations = [u \in URLs |-> 0]
    /\ log = {}

\* ------------------------------------------------- download(), lines 19-32
\* what requests.get(url, timeout, verify, stream=True) meets: the
\* connection fails, no data arrives within the timeout, or the response
\* headers arrive
Connections == {"ok", "ConnectionError", "Timeout"}

\* status codes of the response handed back (redirects are followed by
\* requests; a 3xx without a Location header is handed back as it is)
Statuses == {200, 204, 300, 304, 399, 400, 404, 499, 500, 599}

\* a raise_for_status that rejects the server errors only
RaisesForStatus5xx(status) == 500 <= status /\ status < 600

\* r.raise_for_status() raises HTTPError for the 4xx and the 5xx codes
RaisesForStatus(status) == 400 <= status /\ status < 600

\* one call download(url, stream, timeout, verify) on an empty sink; the
\* response body has dl.chunks chunks
DownloadInit ==
    /\ MainIdle
    /\ rd = NoRead
    /\ uv = NoValidation
    /\ \E c \in Connections, st \in Statuses, n \in 0 .. MaxChunks :
        dl = [pc |-> "get", conn |-> c, status |-> st, chunks |-> n,
              sink |-> 0, exc |-> "none"]

\* line 29: requests.get raises, or returns once the headers are there
DlGet ==
    /\ dl.pc = "get"
    /\ dl' = IF dl.conn = "ok"
             THEN [dl EXCEPT !.pc = "status"]
             ELSE [dl EXCEPT !.pc = "raised", !.exc = dl.conn]
    /\ UNCHANGED <<mainVars, rd, uv>>

\* line 30: r.raise_for_status()
DlRaiseForStatus ==
    /\ dl.pc = "status"
    /\ dl' = IF RaisesForStatus(dl.status)
             THEN [dl EXCEPT !.pc = "raised", !.exc = "HTTPError"]
             ELSE [dl EXCEPT !.pc = "body"]
    /\ UNCHANGED <<mainVars, rd, uv>>

\* lines 31-32: the next chunk of the body is written to the stream
DlWriteChunk ==
    /\ dl.pc = "body"
    /\ dl.sink < dl.chunks
    /\ dl' = [dl EXCEPT !.sink = @ + 1]
    /\ UNCHANGED <<mainVars, rd, uv>>

\* lines 31-32: reading the next chunk or writing it fails
DlBodyError ==
    /\ dl.pc = "body"
    /\ dl.sink < dl.chunks
    /\ dl' = [dl EXCEPT !.pc = "raised", !.exc = "BodyError"]
    /\ UNCHANGED <<mainVars, rd, uv>>

\* line 31: iter_content is exhausted and download returns
DlReturn ==
    /\ dl.pc = "body"
    /\ dl.sink = dl.chunks
    /\ dl' = [dl EXCEPT !.pc = "returned"]
    /\ UNCHANGED <<mainVars, rd, uv>>

DownloadNext == DlGet \/ DlRaiseForStatus \/ DlWriteChunk \/ DlBodyError \/ DlReturn

DownloadSpec == DownloadInit /\ [][DownloadNext]_vars

\* -------------------------------------- _read_urls and _is_valid_url, 92-116
\* strings are sequences of characters: a letter, a digit, the delimiters of
\* a URL, an opening bracket and two kinds of whitespace
Letters == {"h"}
Digits == {"1"}
Whitespace == {" ", "\n"}

RECURSIVE Strip(_)
\* line 99: line.strip() drops the whitespace at both ends
Strip(s) ==
    IF s = <<>> THEN s
    ELSE IF Head(s) \in Whitespace THEN Strip(Tail(s))
    ELSE IF s[Len(s)] \in Whitespace THEN Strip(SubSeq(s, 1, Len(s) - 1))
    ELSE s

\* s.find(c) from position `from`, 1-based; 0 when c does not occur
Find(s, C, from) ==
    LET hits == {i \in from .. Len(s) : s[i] \in C}
    IN  IF hits = {} THEN 0 ELSE CHOOSE i \in hits : \A j \in hits : i <= j

\* urlsplit's scheme: the text before the first ':' when it starts with a
\* letter and holds only letters, digits, '+', '-' and '.'
SchemeEnd(s) ==
    LET i == Find(s, {":"}, 1)
    IN  IF /\ i > 1
           /\ s[1] \in Letters
           /\ \A k \in 1 .. i - 1 : s[k] \in Letters \cup Digits \cup {"+", "-", "."}
        THEN i ELSE 0

RECURSIVE Sanitize(_)
\* urlsplit first drops leading spaces and control characters and every
\* tab, carriage return and newline of its argument
Sanitize(s) ==
    IF s = <<>> THEN s
    ELSE IF Head(s) \in Whitespace THEN Sanitize(Tail(s))
    ELSE <<Head(s)>> \o SelectSeq(Tail(s), LAMBDA c : c # "\n")

\* line 114: urlparse(s); the netloc is what follows a leading '//' of the
\* rest, up to the next '/', '?' or '#'; a netloc with a '[' and no ']' (or
\* the reverse) makes urlparse raise ValueError
UrlParse(s) ==
    LET url == Sanitize(s)
        i == SchemeEnd(url)
        scheme == IF i > 0 THEN SubSeq(url, 1, i - 1) ELSE <<>>
        rest == IF i > 0 THEN SubSeq(url, i + 1, Len(url)) ELSE url
        hasNetloc == Len(rest) >= 2 /\ rest[1] = "/" /\ rest[2] = "/"
        delim == Find(rest, {"/", "?", "#"}, 3)
        netloc == IF ~hasNetloc THEN <<>>
                  ELSE IF delim = 0 THEN SubSeq(rest, 3, Len(rest))
                  ELSE SubSeq(rest, 3, delim - 1)
        has(c) == \E k \in 1 .. Len(netloc) : netloc[k] = c
    IN  [raises |-> has("[") # has("]"), scheme |-> scheme, netloc |-> netloc]

\* Python's `x and y` on strings: x when x is empty, else y
PyAnd(x, y) == IF x = <<>> THEN x ELSE y

\* line 116: return scheme and netloc; the caller tests its truth value
IsValidUrl(s) == PyAnd(UrlParse(s).scheme, UrlParse(s).netloc) # <<>>

\* the lines _read_urls is run on
SampleLines ==
    { <<>>,
      <<" ">>,
      <<"\n">>,
      <<"h", ":", "/", "/", "h">>,
      <<" ", "h", ":", "/", "/", "h", "/", "h", "\n">>,
      <<"h", "1", ":", "/", "/", "h", ":", "1", "/", "h", " ", "h", "\n">>,
      <<":", "/", "/", "h", "\n">>,
      <<"h", ":", "1", "/", "h", "\n">>,
      <<"h", ":", "/", "h", "\n">>,
      <<"h", ":", "/", "/", "\n">>,
      <<"1", ":", "/", "/", "h", "\n">>,
      <<"h", "h", "\n">>,
      <<"h", ":", "/", "/", "[", "\n">> }

\* one run of _read_urls over an input of at most MaxLines lines
ReadInit ==
    /\ MainIdle
    /\ dl = NoDownload
    /\ uv = NoValidation
    /\ \E ls \in SeqsUpTo(SampleLines, MaxLines) :
        rd = [pc |-> "loop", lines |-> ls, i |-> 0, yielded |-> <<>>, errors |-> <<>>]

\* the line the for loop of line 98 takes next, stripped (line 99)
NextLine == Strip(rd.lines[rd.i + 1])

\* line 98: the input is exhausted and the generator ends
RdEnd ==
    /\ rd.pc = "loop"
    /\ rd.i = Len(rd.lines)
    /\ rd' = [rd EXCEPT !.pc = "done"]
    /\ UNCHANGED <<mainVars, dl, uv>>

\* lines 100-101: an empty line is ignored
RdBlank ==
    /\ rd.pc = "loop"
    /\ rd.i < Len(rd.lines)
    /\ NextLine = <<>>
    /\ rd' = [rd EXCEPT !.i = @ + 1]
    /\ UNCHANGED <<mainVars, dl, uv>>

\* lines 102 and 114: urlparse raises ValueError, which nothing catches
RdRaise ==
    /\ rd.pc = "loop"
    /\ rd.i < Len(rd.lines)
    /\ NextLine # <<>>
    /\ UrlParse(NextLine).raises
    /\ rd' = [rd EXCEPT !.pc = "raised"]
    /\ UNCHANGED <<mainVars, dl, uv>>

\* lines 102-103: a valid URL is yielded
RdYield ==
    /\ rd.pc = "loop"
    /\ rd.i < Len(rd.lines)
    /\ NextLine # <<>>
    /\ ~UrlParse(NextLine).raises
    /\ IsValidUrl(NextLine)
    /\ rd' = [rd EXCEPT !.i = @ + 1, !.yielded = Append(@, NextLine)]
    /\ UNCHANGED <<mainVars, dl, uv>>

\* lines 104-105: an invalid line is logged with its number i + 1
RdReport ==
    /\ rd.pc = "loop"
    /\ rd.i < Len(rd.lines)
    /\ NextLine # <<>>
    /\ ~UrlParse(NextLine).raises
    /\ ~IsValidUrl(NextLine)
    /\ rd' = [rd EXCEPT !.i = @ + 1, !.errors = Append(@, <<rd.i + 1, NextLine>>)]
    /\ UNCHANGED <<mainVars, dl, uv>>

ReadNext == RdEnd \/ RdBlank \/ RdRaise \/ RdYield \/ RdReport

ReadSpec == ReadInit /\ [][ReadNext]_vars

\* ---------------------------------------------- _is_valid_url on its own
\* the characters of the strings _is_valid_url is called on
UrlChars == Letters \cup Digits \cup Whitespace \cup {":", "/", "["}

\* one call _is_valid_url(s), s any string of at most MaxUrlLen characters
UrlInit ==
    /\ MainIdle
    /\ dl = NoDownload
    /\ rd = NoRead
    /\ \E s \in SeqsUpTo(UrlChars, MaxUrlLen) :
        uv = [pc |-> "call", s |-> s, result |-> "none"]

\* line 114: urlparse raises ValueError and so does _is_valid_url
UvRaise ==
    /\ uv.pc = "call"
    /\ UrlParse(uv.s).raises
    /\ uv' = [uv EXCEPT !.pc = "raised"]
    /\ UNCHANGED <<mainVars, dl, rd>>

\* lines 114-116: the call returns a true value
UvAccept ==
    /\ uv.pc = "call"
    /\ ~UrlParse(uv.s).raises
    /\ IsValidUrl(uv.s)
    /\ uv' = [uv EXCEPT !.pc = "returned", !.result = "accept"]
    /\ UNCHANGED <<mainVars, dl, rd>>

\* lines 114-116: the call returns a false value
UvReject ==
    /\ uv.pc = "call"
    /\ ~UrlParse(uv.s).raises
    /\ ~IsValidUrl(uv.s)
    /\ uv' = [uv EXCEPT !.pc = "returned", !.result = "reject"]
    /\ UNCHANGED <<mainVars, dl, rd>>

UrlNext == UvRaise \/ UvAccept \/ UvReject

UrlSpec == UrlInit /\ [][UrlNext]_vars

\* ------------------------------------------------------------------ claims
Raised == \E w \in Workers : wpc[w] = "raised"

\* number of occurrences of URL u in the input
Count(u) == Cardinality({i \in 1 .. Len(jobs) : jobs[i] = u})

Downloaded(u) == <<"info", u, "downloaded">> \in log
TransferFailed(u) ==
    <<"error", u, "transfer">> \in log \/ <<"exception", u, "transfer">> \in log
CreateFailed(u) == <<"error", u, "open">> \in log
Truncated(u) == fs[u].st \in {"empty", "partial"}

\* C1: under fair scheduling _dispatch returns for every finite job sequence
\* and every num_threads >= 1, unless a consumer raises: every fair run
\* reaches the return of _dispatch or a worker that has raised.
C1_DispatchTerminates == <>(ppc = "done" \/ Raised)

\* C1 witness: _dispatch has returned with more workers than jobs, no
\* consumer having raised.
C1_Witness == ppc = "done" /\ ~Raised /\ jobs # <<>> /\ numThreads > Len(jobs)

\* C2 as stated: once _dispatch has returned, a URL that occurs twice in the
\* input has had exactly one invocation of the transfer callable (stated for
\* the URLs whose destination every open either created or found existing).
C2_ExactlyOneInvocation ==
    ppc = "done" =>
        \A u \in URLs : (Count(u) = 2 /\ ~CreateFailed(u)) => invocations[u] = 1

\* C2 amended: a URL that occurs twice in the input has at most one
\* invocation of the transfer callable as long as no transfer of it has
\* failed, and exactly one once _dispatch has returned if, in addition, no
\* create of its destination failed with an error other than already-exists.
C2_OneInvocationUnlessFailed ==
    \A u \in URLs :
        (Count(u) = 2 /\ ~TransferFailed(u)) =>
            /\ invocations[u] <= 1
            /\ (ppc = "done" /\ ~CreateFailed(u)) => invocations[u] = 1

\* C2 witness: both occurrences of a URL were handled, by two workers, its
\* transfer ran once and the other occurrence found the file.
C2_Witness ==
    /\ ppc = "done"
    /\ numThreads = 2
    /\ \E u \in URLs :
        /\ Count(u) = 2
        /\ invocations[u] = 1
        /\ <<"info", u, "already">> \in log
        /\ fs[u].st = "full"

C4_FailureIsolation ==
    /\ \A w \in Workers : wpc[w] = "raised" => ~dirCreatable
    /\ ppc = "done" => \A u \in URLs : Downloaded(u) => fs[u].st = "full"

\* C5: every job is delivered exactly once: no job position is yielded twice
\* by the workers' streams, and when _dispatch has returned every job of the
\* input has been yielded once and none is left in the queue.
C5_ExactlyOnce ==
    /\ \A i \in 1 .. MaxJobs : delivered[i] <= 1
    /\ ppc = "done" =>
        /\ \A i \in 1 .. Len(jobs) : delivered[i] = 1
        /\ \A k \in 1 .. Len(queue) : queue[k] = Sentinel

\* C5 witness: _dispatch has returned after two workers shared three jobs.
C5_Witness ==
    /\ ppc = "done"
    /\ numThreads = 2
    /\ Len(jobs) = 3
    /\ \A i \in 1 .. 3 : delivered[i] = 1

\* C6: when _dispatch has returned no worker thread is alive and no job is
\* being processed.
C6_ReturnAfterWorkers ==
    ppc = "done" => \A w \in Workers : ~Alive(w) /\ wpc[w] \notin {"open", "transfer"}

\* C6 witness: _dispatch has returned from a run of two workers that
\* handled jobs.
C6_Witness ==
    /\ ppc = "done"
    /\ numThreads = 2
    /\ \A w \in Started : wpc[w] = "done"
    /\ Len(jobs) >= 2

\* C7: once a transfer of URL u has completed successfully, no step invokes
\* the transfer callable for u again.
C7_NoSecondDownload ==
    [][\A u \in URLs : Downloaded(u) => invocations'[u] = invocations[u]]_vars

\* C8: when the download directory cannot be created, no job is dispatched.
C8_SetupFailureAborts == ~dirCreatable => pidx = 0

\* C9 as stated: a call that meets a connection failure, a timeout or a
\* status outside 200..299 ends by raising, with nothing in the sink.
C9_NonSuccessWritesNothing ==
    (dl.pc \in {"returned", "raised"} /\ (dl.conn # "ok" \/ dl.status \notin 200 .. 299)) =>
        dl.pc = "raised" /\ dl.sink = 0

\* C9 amended: a call that meets a connection failure, a timeout or a 4xx or
\* 5xx status raises with nothing in the sink, and the sink holds a chunk
\* only once the status check has passed; a status below 400 passes it.
C9_ErrorStatusWritesNothing ==
    /\ (dl.pc \in {"returned", "raised"} /\ (dl.conn # "ok" \/ dl.status \in 400 .. 599)) =>
            dl.pc = "raised" /\ dl.sink = 0
    /\ dl.exc \in {"ConnectionError", "Timeout", "HTTPError"} => dl.sink = 0
    /\ dl.sink > 0 => dl.pc \in {"body", "returned", "raised"} /\ dl.status \notin 400 .. 599

\* C9 witness: a 404 response with a body has been refused with HTTPError.
C9_Witness ==
    dl.pc = "raised" /\ dl.exc = "HTTPError" /\ dl.status = 404 /\ dl.chunks = 2

\* what C10 expects of a line: it is blank, or a valid URL, or invalid
Blank(l) == \A k \in 1 .. Len(l) : l[k] \in Whitespace
WellFormed(l) ==
    /\ ~UrlParse(Strip(l)).raises
    /\ UrlParse(Strip(l)).scheme # <<>>
    /\ UrlParse(Strip(l)).netloc # <<>>

RECURSIVE Filtered(_, _, _)
\* the non-blank lines among ls[n..] that are valid (or, for valid = FALSE,
\* invalid), stripped, each with its line number
Filtered(ls, n, valid) ==
    IF n > Len(ls) THEN <<>>
    ELSE IF ~Blank(ls[n]) /\ (WellFormed(ls[n]) <=> valid)
         THEN <<(<<n, Strip(ls[n])>>)>> \o Filtered(ls, n + 1, valid)
         ELSE Filtered(ls, n + 1, valid)

\* C10: _read_urls never stops before the end of its input, and at the end
\* it has yielded the stripped valid lines in input order and reported every
\* other non-blank line with its 1-based line number.
C10_ReadUrlsFilters ==
    /\ rd.pc # "raised"
    /\ rd.pc = "done" =>
        LET good == Filtered(rd.lines, 1, TRUE)
        IN  /\ rd.yielded = [k \in 1 .. Len(good) |-> good[k][2]]
            /\ rd.errors = Filtered(rd.lines, 1, FALSE)

\* what C11 calls a URL with a scheme and an authority: the text, cleaned as
\* the parser cleans it, starts with a scheme (a letter, then letters, digits,
\* '+', '-', '.'), followed by "://" and at least one character of authority
HasSchemeAndAuthority(s) ==
    LET url == Sanitize(s)
    IN  \E i \in 2 .. Len(url) - 3 :
            /\ url[1] \in Letters
            /\ \A k \in 1 .. i - 1 : url[k] \in Letters \cup Digits \cup {"+", "-", "."}
            /\ url[i] = ":"
            /\ url[i + 1] = "/"
            /\ url[i + 2] = "/"
            /\ url[i + 3] \notin {"/", "?", "#"}

\* C11: every call of _is_valid_url returns, and it accepts its argument
\* exactly when the argument has a non-empty scheme and a non-empty
\* authority; every other string is rejected.
C11_ValidIffSchemeAndAuthority ==
    /\ uv.pc # "raised"
    /\ uv.pc = "returned" => (uv.result = "accept" <=> HasSchemeAndAuthority(uv.s))

\* the workers inside the with block of line 51 for u: each holds a file it
\* opened at the destination path of u for writing
Writers(u) == {w \in Workers : wpc[w] = "transfer" /\ Dst(w) = u}

\* C12: of the workers handling one URL, at most one holds the destination
\* file open for writing at any time, and a worker whose exclusive create
\* finds the file present invokes no transfer, writes nothing and deletes
\* nothing.
C12_ExclusiveCreate ==
    /\ [](\A u \in URLs : Cardinality(Writers(u)) <= 1)
    /\ [][\A w \in Workers :
            OpenExists(w) => (fs' = fs /\ invocations' = invocations)]_vars

\* C13: a step that deletes the file of u is taken by the worker that created
\* that file and whose transfer of it is ending, and a fully written file is
\* never deleted or changed afterwards.
C13_DeletesOnlyOwnFailed ==
    [][\A u \in URLs :
        /\ (fs[u].st # "absent" /\ fs'[u].st = "absent")
              => \E w \in Workers : /\ fs[u].owner = w
                                    /\ wpc[w] = "transfer"
                                    /\ Dst(w) = u
                                    /\ wpc'[w] # "transfer"
        /\ fs[u].st = "full" => fs'[u] = fs[u]]_vars

\* download_all has skipped an occurrence of u at lines 54-55
Skipped(u) == <<"info", u, "already">> \in log

\* some occurrence of u has logged a failure (lines 57 or 61)
FailureLogged(u) ==
    \E e \in {"open", "transfer"} : <<"error", u, e>> \in log \/ <<"exception", u, e>> \in log

Pending == {i \in 1 .. pidx : delivered[i] = 0}

\* C15: the queue never holds more than num_threads items, jobs and
\* sentinels together, and at most num_threads pushed jobs are waiting to
\* be received.
C15_Backpressure ==
    /\ Len(queue) <= numThreads
    /\ Cardinality(Pending) <= numThreads

\* C15 witness: the queue of a two-worker run is full of jobs while the
\* producer still has a job to push.
C15_Witness ==
    /\ numThreads = 2
    /\ ppc = "put"
    /\ Len(queue) = 2
    /\ Cardinality(Pending) = 2

\* the number of jobs that have left the queue
Received == Cardinality({i \in 1 .. pidx : delivered[i] >= 1})

\* the jobs in the queue, head first
QueuedJobs == SelectSeq(queue, LAMBDA x : x # Sentinel)

\* C16: jobs leave the queue in the order the producer pushed them: the jobs
\* received so far are a prefix of the input, the queue holds the following
\* jobs in input order, and the job a worker is handling is one of that
\* prefix, different workers handling different jobs; each worker thus
\* receives its jobs in input order.
C16_FifoOrder ==
    /\ \A i \in 1 .. pidx : delivered[i] >= 1 <=> i <= Received
    /\ QueuedJobs = [j \in 1 .. pidx - Received |-> Received + j]
    /\ \A w \in Workers : cur[w] <= Received
    /\ \A w1, w2 \in Workers : (w1 # w2 /\ cur[w1] # 0) => cur[w1] # cur[w2]

\* C16 witness: of three jobs, the second worker is handling the second
\* while the first worker has already received the third.
C16_Witness ==
    /\ numThreads = 2
    /\ Len(jobs) = 3
    /\ cur[1] = 3
    /\ cur[2] = 2

\* the sentinels in the queue
QueuedSentinels == Len(queue) - Len(QueuedJobs)

\* C17: the producer pushes every job before any sentinel and then exactly
\* num_threads sentinels; in the queue no job follows a sentinel; every
\* sentinel taken off the queue ended one worker, which receives nothing
\* afterwards; and when _dispatch has returned every worker has consumed its
\* sentinel and the queue is empty.
C17_SentinelShutdown ==
    /\ nsent > 0 => pidx = Len(jobs)
    /\ nsent <= numThreads
    /\ ppc \in {"join", "done"} => nsent = numThreads
    /\ \A i, j \in 1 .. Len(queue) :
            (i < j /\ queue[i] = Sentinel) => queue[j] = Sentinel
    /\ nsent - QueuedSentinels = Cardinality({w \in Workers : wpc[w] = "done"})
    /\ \A w \in Workers : wpc[w] = "done" => cur[w] = 0
    /\ ppc = "done" => (queue = <<>> /\ \A w \in Started : wpc[w] = "done")

Handling == {w \in Workers : wpc[w] \in {"open", "transfer"}}
Transferring == {w \in Workers : wpc[w] = "transfer"}

\* C19: at most num_threads URLs are being handled at any time: only the
\* num_threads started workers ever run, so at most num_threads transfers
\* are in progress and at most num_threads files on disk are open for
\* writing.
C19_BoundedConcurrency ==
    /\ \A w \in Workers \ (1 .. numThreads) : wpc[w] = "unstarted"
    /\ Cardinality(Handling) <= numThreads
    /\ Cardinality(Transferring) <= numThreads
    /\ Cardinality({u \in URLs : Truncated(u)}) <= Cardinality(Transferring)

\* C19 witness: two workers of a two-worker run are transferring two
\* different URLs at the same time while a third job waits in the queue.
C19_Witness ==
    /\ numThreads = 2
    /\ Cardinality(Transferring) = 2
    /\ Truncated("a") /\ Truncated("b")
    /\ QueuedJobs # <<>>
====
